---- MODULE Spec2Model ----
(***************************************************************************)
(* Model of src/app.py: the /analyze_behavior request handler of the       *)
(* PetPsych backend (validation, video handling, prompt assembly, the      *)
(* retrying call of the generation service, response shaping) and the      *)
(* video summarizer stub analyze_video_content.                            *)
(*                                                                         *)
(* Python strings are TLA+ strings; they are taken apart with Len, SubSeq  *)
(* and \o, so strip(), lower(), `in`, startswith() and rsplit() are        *)
(* computed character by character as the library computes them.           *)
(***************************************************************************)
EXTENDS Integers, Sequences, FiniteSets, TLC

(***************************************************************************)
(* Bounds of the model.                                                    *)
(***************************************************************************)
\* number of requests the threaded server handles at once under ConcSpec
NReq == 2
\* last value of the wall clock (whole seconds) under ConcSpec
MaxClock == 1
\* half-width of the neighbourhood of each size threshold tried in VideoSpec
MaxDelta == 5

Reqs == 1..NReq

(***************************************************************************)
(* Program constants.                                                      *)
(***************************************************************************)
max_retries == 3
NAME_MAX == 50
BEHAVIOR_MAX == 2000
SIZE_HIGH == 1000000
SIZE_CLEAR == 100000
SHORT_BELOW == 5000000
MEDIUM_BELOW == 20000000
KB == 1024

UPLOAD_FOLDER == "static/uploads"
ALLOWED_EXTENSIONS == {"mp4", "avi", "mov", "webm", "mkv"}

\* Python's None, for the optional values of the handler.
None == [none |-> TRUE]

(***************************************************************************)
(* Python string operations.                                               *)
(***************************************************************************)
Ch(s, i) == SubSeq(s, i, i)

Whitespace == {" ", "\t", "\n"}

UpperLetters == "ABCDEFGHIJKLMNOPQRSTUVWXYZ"
LowerLetters == "abcdefghijklmnopqrstuvwxyz"

\* index of the one-character string c in the string letters, 0 when absent
IndexIn(letters, c) ==
    IF \E i \in 1..Len(letters) : Ch(letters, i) = c
    THEN CHOOSE i \in 1..Len(letters) : Ch(letters, i) = c
    ELSE 0

LowerCh(c) ==
    IF IndexIn(UpperLetters, c) > 0
    THEN Ch(LowerLetters, IndexIn(UpperLetters, c))
    ELSE c

UpperCh(c) ==
    IF IndexIn(LowerLetters, c) > 0
    THEN Ch(UpperLetters, IndexIn(LowerLetters, c))
    ELSE c

IsLetter(c) == IndexIn(UpperLetters, c) > 0 \/ IndexIn(LowerLetters, c) > 0

\* The recursions below walk an index over the string.  Where an
\* intermediate string is used many times it is bound by a quantifier over
\* a singleton set, so that it is computed once.
RECURSIVE LowerFrom(_, _)
LowerFrom(s, i) ==
    IF i > Len(s) THEN ""
    ELSE LowerCh(Ch(s, i)) \o LowerFrom(s, i + 1)

lower(s) == LowerFrom(s, 1)

\* first position from i on that holds no character of chars
RECURSIVE SkipFrom(_, _, _)
SkipFrom(s, chars, i) ==
    IF i > Len(s) THEN i
    ELSE IF Ch(s, i) \in chars THEN SkipFrom(s, chars, i + 1)
    ELSE i

\* last position up to i that holds no character of chars, 0 if none
RECURSIVE SkipBack(_, _, _)
SkipBack(s, chars, i) ==
    IF i = 0 THEN 0
    ELSE IF Ch(s, i) \in chars THEN SkipBack(s, chars, i - 1)
    ELSE i

lstrip(s) == SubSeq(s, SkipFrom(s, Whitespace, 1), Len(s))

rstrip(s) == SubSeq(s, 1, SkipBack(s, Whitespace, Len(s)))

strip(s) == rstrip(lstrip(s))

\* sub in s
Contains(sub, s) ==
    \E i \in 1..(Len(s) - Len(sub) + 1) : SubSeq(s, i, i + Len(sub) - 1) = sub

startswith(s, p) == Len(s) >= Len(p) /\ SubSeq(s, 1, Len(p)) = p

\* str.title(): first letter of every run of letters upper, the others lower
RECURSIVE TitleFrom(_, _)
TitleFrom(s, i) ==
    IF i > Len(s) THEN ""
    ELSE (IF i > 1 /\ IsLetter(Ch(s, i - 1)) THEN LowerCh(Ch(s, i)) ELSE UpperCh(Ch(s, i)))
             \o TitleFrom(s, i + 1)

title(s) == TitleFrom(s, 1)

\* position of the last occurrence of the character c in s, 0 when absent
LastIndex(s, c) ==
    IF \E i \in 1..Len(s) : Ch(s, i) = c
    THEN CHOOSE i \in 1..Len(s) : Ch(s, i) = c /\ \A j \in (i + 1)..Len(s) : Ch(s, j) # c
    ELSE 0

\* position of the first occurrence of the character c in s, 0 when absent
FirstIndex(s, c) ==
    IF \E i \in 1..Len(s) : Ch(s, i) = c
    THEN CHOOSE i \in 1..Len(s) : Ch(s, i) = c /\ \A j \in 1..(i - 1) : Ch(s, j) # c
    ELSE 0

\* str(n) of a natural number
Digits == "0123456789"
NumDigits(n) == CHOOSE d \in 1..12 : n < 10 ^ d /\ (d = 1 \/ n >= 10 ^ (d - 1))

RECURSIVE DigitsFrom(_, _)
DigitsFrom(n, d) ==
    IF d = 0 THEN ""
    ELSE Ch(Digits, ((n \div (10 ^ (d - 1))) % 10) + 1) \o DigitsFrom(n, d - 1)

ToStr(n) == DigitsFrom(n, NumDigits(n))

\* s * n
RECURSIVE Rep(_, _)
Rep(s, n) ==
    IF n = 0 THEN ""
    ELSE IF n % 2 = 0 THEN LET h == Rep(s, n \div 2) IN h \o h
    ELSE s \o Rep(s, n - 1)


(***************************************************************************)
(* Library functions the handler calls.                                    *)
(***************************************************************************)
\* werkzeug's secure_filename on ASCII names: path separators become
\* blanks, runs of whitespace become one "_", characters outside
\* [A-Za-z0-9_.-] are dropped, leading and trailing "." and "_" are removed.
SafeChars == UpperLetters \o LowerLetters \o Digits \o "_.-"

Blank == Whitespace \cup {"/"}

\* "_".join(filename.replace("/", " ").split())
RECURSIVE JoinWords(_, _)
JoinWords(s, i) ==
    IF i > Len(s) THEN ""
    ELSE IF Ch(s, i) \in Blank THEN JoinWords(s, i + 1)
    ELSE (IF i > 1 /\ Ch(s, i - 1) \in Blank /\ SkipBack(s, Blank, i - 1) > 0
          THEN "_" ELSE "")
             \o Ch(s, i) \o JoinWords(s, i + 1)

RECURSIVE KeepSafe(_, _)
KeepSafe(s, i) ==
    IF i > Len(s) THEN ""
    ELSE (IF IndexIn(SafeChars, Ch(s, i)) > 0 THEN Ch(s, i) ELSE "")
             \o KeepSafe(s, i + 1)

StripDots(s) ==
    SubSeq(s, SkipFrom(s, {".", "_"}, 1), SkipBack(s, {".", "_"}, Len(s)))

secure_filename(filename) ==
    CHOOSE name \in {StripDots(kept) :
                        kept \in {KeepSafe(joined, 1) :
                                     joined \in {JoinWords(filename, 1)}}} : TRUE

\* base64.b64decode(s) without validation, for payloads that carry no "="
\* padding: characters outside the alphabet are discarded, and the call
\* raises binascii.Error unless the number of data characters is a multiple
\* of four.  The result is the number of decoded bytes.
B64Alphabet == UpperLetters \o LowerLetters \o Digits \o "+/"

DataChars(s) == Cardinality({i \in 1..Len(s) : IndexIn(B64Alphabet, Ch(s, i)) > 0})

b64decode(s) ==
    CHOOSE decoded \in
        {IF n % 4 = 0 THEN [raised |-> FALSE, len |-> (n \div 4) * 3]
         ELSE [raised |-> TRUE, len |-> 0] : n \in {DataChars(data) : data \in {s}}} : TRUE

\* dict.get(key, default)
Get(d, key, default) == IF key \in DOMAIN d THEN d[key] ELSE default

(***************************************************************************)
(* allowed_file                                                            *)
(***************************************************************************)
allowed_file(filename) ==
    /\ Contains(".", filename)
    /\ \E ext \in {SubSeq(filename, LastIndex(filename, ".") + 1, Len(filename))} :
           lower(ext) \in ALLOWED_EXTENSIONS

(***************************************************************************)
(* validate_input_data: <<is_valid, error_message>> as a record.           *)
(***************************************************************************)
required_fields == <<"pet_name", "pet_type", "pet_breed">>

valid_pet_types ==
    {"dog", "cat", "bird", "rabbit", "hamster", "guinea pig", "ferret", "other"}

FieldMissing(data, field) == Get(data, field, "") = "" \/ strip(data[field]) = ""

\* mutant of validate_input_data: the name length check is off by one
validate_input_data_name51(data) ==
    IF \E i \in 1..Len(required_fields) : FieldMissing(data, required_fields[i])
    THEN LET i == CHOOSE k \in 1..Len(required_fields) :
                      /\ FieldMissing(data, required_fields[k])
                      /\ \A j \in 1..(k - 1) : ~FieldMissing(data, required_fields[j])
         IN [ok |-> FALSE, msg |-> "Missing required field: " \o required_fields[i]]
    ELSE IF lower(data["pet_type"]) \notin valid_pet_types
    THEN [ok |-> FALSE, msg |-> "Invalid pet type"]
    ELSE IF Len(data["pet_name"]) > NAME_MAX + 1
    THEN [ok |-> FALSE, msg |-> "Pet name too long (max 50 characters)"]
    ELSE IF Len(Get(data, "behavior_desc", "")) > BEHAVIOR_MAX
    THEN [ok |-> FALSE, msg |-> "Behavior description too long (max 2000 characters)"]
    ELSE [ok |-> TRUE, msg |-> ""]

validate_input_data(data) ==
    IF \E i \in 1..Len(required_fields) : FieldMissing(data, required_fields[i])
    THEN LET i == CHOOSE k \in 1..Len(required_fields) :
                      /\ FieldMissing(data, required_fields[k])
                      /\ \A j \in 1..(k - 1) : ~FieldMissing(data, required_fields[j])
         IN [ok |-> FALSE, msg |-> "Missing required field: " \o required_fields[i]]
    ELSE IF lower(data["pet_type"]) \notin valid_pet_types
    THEN [ok |-> FALSE, msg |-> "Invalid pet type"]
    ELSE IF Len(data["pet_name"]) > NAME_MAX
    THEN [ok |-> FALSE, msg |-> "Pet name too long (max 50 characters)"]
    ELSE IF Len(Get(data, "behavior_desc", "")) > BEHAVIOR_MAX
    THEN [ok |-> FALSE, msg |-> "Behavior description too long (max 2000 characters)"]
    ELSE [ok |-> TRUE, msg |-> ""]

(***************************************************************************)
(* create_enhanced_prompt: the prompt is the fixed template with these     *)
(* slots filled in; the record holds the text interpolated into each slot  *)
(* (the wall-clock "Analysis Date" slot is left out).                      *)
(***************************************************************************)
pet_type_insights == {"dog", "cat", "bird", "rabbit"}

create_enhanced_prompt(pet_data_, video_analysis_) ==
    [ species_info   |-> IF lower(pet_data_["pet_type"]) \in pet_type_insights
                         THEN lower(pet_data_["pet_type"]) ELSE "dog",
      name           |-> pet_data_["pet_name"],
      species        |-> title(pet_data_["pet_type"]),
      breed          |-> pet_data_["pet_breed"],
      behavior       |-> Get(pet_data_, "behavior_desc", "Not specified"),
      vocal_cues     |-> Get(pet_data_, "vocal_cues", "Not specified"),
      wants_to_know  |-> Get(pet_data_, "query", "Not specified"),
      video_line     |-> IF video_analysis_ # ""
                         THEN "VIDEO ANALYSIS: " \o video_analysis_ ELSE "",
      framework_for  |-> pet_data_["pet_type"] ]

(***************************************************************************)
(* analyze_video_content.  A Python value passed as video_data is a record *)
(* of its type and its length: the function reads nothing else of it.      *)
(***************************************************************************)
PyStr(n) == [type |-> "str", len |-> n]
PyBytes(n) == [type |-> "bytes", len |-> n]
PyNone == [type |-> "NoneType", len |-> 0]

HighQualitySentence ==
    "High-quality video footage analyzed showing detailed behavioral patterns and environmental context."
ClearIndicatorsSentence ==
    "Video footage analyzed showing clear behavioral indicators and movement patterns."
BriefClipSentence ==
    "Brief video clip analyzed providing supplementary visual context."

analyze_video_content(video_data_) ==
    IF video_data_.type = "NoneType" \/ video_data_.len = 0 THEN ""
    ELSE LET video_size == IF video_data_.type = "str" THEN video_data_.len ELSE 0
         IN IF video_size > SIZE_HIGH THEN HighQualitySentence
            ELSE IF video_size > SIZE_CLEAR THEN ClearIndicatorsSentence
            ELSE BriefClipSentence

(***************************************************************************)
(* Sentences and messages of analyze_behavior.                             *)
(***************************************************************************)
UploadedSentence(file_size) ==
    LET duration_estimate == IF file_size < SHORT_BELOW THEN "short"
                             ELSE IF file_size < MEDIUM_BELOW THEN "medium"
                             ELSE "long"
    IN "Uploaded video file analyzed (" \o duration_estimate \o " duration, "
           \o ToStr(file_size \div KB) \o "KB). "
           \o "Visual behavioral patterns and environmental context extracted from footage."

UploadFallback ==
    "Video upload encountered processing issues but analysis continues with provided descriptions."
CapturedFallback ==
    "Live captured video provided additional behavioral context."

EmptyResponseError == "Empty response from AI model"
UnavailableError == "AI service temporarily unavailable. Please try again."

\* lines 342-349: the user message of the 500 response
user_message(error_msg_) ==
    CHOOSE message \in
        {IF Contains("quota", lowered) \/ Contains("limit", lowered)
         THEN "Service temporarily at capacity. Please try again in a few minutes."
         ELSE IF Contains("network", lowered) \/ Contains("connection", lowered)
         THEN "Network connectivity issue. Please check your connection and try again."
         ELSE IF Contains("invalid", lowered)
         THEN "Invalid input provided. Please check your entries and try again."
         ELSE "Analysis service temporarily unavailable. Please try again."
            : lowered \in {lower(error_msg_)}} : TRUE

(***************************************************************************)
(* State.  Every request r has its own copy of the handler's locals; the   *)
(* upload folder and the wall clock are shared by the worker threads.      *)
(***************************************************************************)
VARIABLES
    pc,              \* pc[r]: the handler's position
    form,            \* form[r]: request.form and request.files as received
    pet_data,        \* pet_data[r]
    video_analysis,  \* video_analysis[r]
    video_path,      \* video_path[r], "" while unassigned
    prompt,          \* prompt[r], None while unassigned
    attempt,         \* attempt[r]: the retry loop's index
    response_text,   \* response.text of the last call that returned
    last_error,      \* str(e) of the exception the retry loop caught last
    error_msg,       \* str(e) in the handler's outer except clause
    result,          \* the HTTP response returned, None before
    files,           \* the upload folder: path -> [size, writer]
    clock,           \* int(time.time())
    calls,           \* number of model.generate_content calls made for r
    first_call,      \* index of the first call that returned non-empty text, 0 if none
    first_text,      \* the text that call returned
    created,         \* the path r wrote in the upload folder, "" if none
    video_raised,    \* the video steps of r that raised
    responses,       \* number of responses returned for r
    video_data,      \* VideoSpec: the argument of analyze_video_content
    summary,         \* VideoSpec: its result
    summarized       \* VideoSpec: whether it has been called

vars == <<pc, form, pet_data, video_analysis, video_path, prompt, attempt,
          response_text, last_error, error_msg, result, files, clock, calls,
          first_call, first_text, created, video_raised, responses, video_data, summary,
          summarized>>

handler_vars == <<pc, form, pet_data, video_analysis, video_path, prompt, attempt,
                  response_text, last_error, error_msg, result, files, clock,
                  calls, first_call, first_text, created, video_raised, responses>>

video_vars == <<video_data, summary, summarized>>

(***************************************************************************)
(* Requests tried.                                                         *)
(***************************************************************************)
UploadedFile(filename, size) == [filename |-> filename, size |-> size]

NameInputs == {"", "  ", " Rex\t", Rep("a", NAME_MAX), Rep("a", NAME_MAX + 1)}
TypeInputs == {"", "Cat", " GUINEA PIG ", "lizard"}
BreedInputs == {"", "Lab"}
BehaviorInputs == {"barks at the door", Rep("b", BEHAVIOR_MAX), Rep("b", BEHAVIOR_MAX + 1)}
VocalInputs == {"whines"}
ContextInputs == {"", "Why does he bark?"}
FileInputs == {None,
               UploadedFile("clip.MP4", SHORT_BELOW),
               UploadedFile("notes.txt", KB),
               UploadedFile("", 0)}
CapturedInputs == {"",
                   "data:video/webm;base64,AAAA",
                   "data:video/webm;base64,AAA",
                   "data:video/webm",
                   "data:image/png;base64,AAAA"}

Forms ==
    [pet_name : NameInputs, pet_type : TypeInputs, pet_breed : BreedInputs,
     behavior_desc : BehaviorInputs, vocal_cues : VocalInputs,
     context : ContextInputs, video_file : FileInputs,
     captured_video : CapturedInputs]

\* the uploads of concurrent clients: valid records, two file names
ConcForms ==
    [pet_name : {"Rex"}, pet_type : {"dog"}, pet_breed : {"Lab"},
     behavior_desc : {"barks at the door"}, vocal_cues : {"whines"},
     context : {""},
     video_file : {UploadedFile("clip.mp4", 2 * KB), UploadedFile("My Clip.MOV", 3 * KB)},
     captured_video : {""}]

\* what one call of model.generate_content, followed by reading
\* response.text, can do: return a text, possibly empty, or raise
ServiceTexts == {"", "Rex seems happy.", "Rex may be anxious."}
ServiceErrors == {"429 Quota exceeded", "Network connection reset", "Invalid argument"}

HandlerInit ==
    /\ pc = [r \in Reqs |-> "idle"]
    /\ form = [r \in Reqs |-> None]
    /\ pet_data = [r \in Reqs |-> None]
    /\ video_analysis = [r \in Reqs |-> ""]
    /\ video_path = [r \in Reqs |-> ""]
    /\ prompt = [r \in Reqs |-> None]
    /\ attempt = [r \in Reqs |-> 0]
    /\ response_text = [r \in Reqs |-> ""]
    /\ last_error = [r \in Reqs |-> ""]
    /\ error_msg = [r \in Reqs |-> ""]
    /\ result = [r \in Reqs |-> None]
    /\ files = [p \in {} |-> None]
    /\ clock = 0
    /\ calls = [r \in Reqs |-> 0]
    /\ first_call = [r \in Reqs |-> 0]
    /\ first_text = [r \in Reqs |-> ""]
    /\ created = [r \in Reqs |-> ""]
    /\ video_raised = [r \in Reqs |-> {}]
    /\ responses = [r \in Reqs |-> 0]

Init ==
    /\ HandlerInit
    /\ video_data = PyNone
    /\ summary = ""
    /\ summarized = FALSE

(***************************************************************************)
(* analyze_behavior, one action per step.                                  *)
(***************************************************************************)
\* lines 222-226: a request arrives and the handler starts
Receive(r, inputs) ==
    /\ pc[r] = "idle"
    /\ UNCHANGED video_vars
    /\ \E f \in inputs : form' = [form EXCEPT ![r] = f]
    /\ pc' = [pc EXCEPT ![r] = "validating"]
    /\ UNCHANGED <<pet_data, video_analysis, video_path, prompt, attempt,
                   response_text, last_error, error_msg, result, files, clock,
                   calls, first_call, first_text, created, video_raised, responses>>

\* lines 230-237
ExtractForm(f) ==
    [pet_name      |-> strip(f.pet_name),
     pet_type      |-> strip(f.pet_type),
     pet_breed     |-> strip(f.pet_breed),
     behavior_desc |-> strip(f.behavior_desc),
     vocal_cues    |-> strip(f.vocal_cues),
     context       |-> strip(f.context)]

\* lines 243-246
ValidationResponse(error_message) ==
    [status |-> 400, success |-> FALSE, error |-> "Invalid input: " \o error_message]

\* lines 230-249
Validate(r) ==
    /\ pc[r] = "validating"
    /\ UNCHANGED video_vars
    /\ \E data \in {ExtractForm(form[r])} : \E v \in {validate_input_data(data)} :
          /\ pet_data' = [pet_data EXCEPT ![r] = data]
          /\ IF ~v.ok
             THEN /\ result' = [result EXCEPT ![r] = ValidationResponse(v.msg)]
                  /\ responses' = [responses EXCEPT ![r] = @ + 1]
                  /\ pc' = [pc EXCEPT ![r] = "done"]
             ELSE /\ pc' = [pc EXCEPT ![r] = "upload"]
                  /\ UNCHANGED <<result, responses>>
    /\ UNCHANGED <<form, video_analysis, video_path, prompt, attempt, response_text,
                   last_error, error_msg, files, clock, calls, first_call, first_text, created,
                   video_raised>>

\* line 253
UploadAccepted(video_file) ==
    /\ video_file # None
    /\ video_file.filename # ""
    /\ allowed_file(video_file.filename)

\* lines 255-258
TempPath(filename, timestamp) ==
    UPLOAD_FOLDER \o "/" \o "video_" \o ToStr(timestamp) \o "_" \o secure_filename(filename)

\* lines 252-258
Upload(r) ==
    /\ pc[r] = "upload"
    /\ UNCHANGED video_vars
    /\ IF UploadAccepted(form[r].video_file)
       THEN /\ video_path' = [video_path EXCEPT
                                 ![r] = TempPath(form[r].video_file.filename, clock)]
            /\ pc' = [pc EXCEPT ![r] = "save"]
       ELSE /\ pc' = [pc EXCEPT ![r] = "captured"]
            /\ UNCHANGED video_path
    /\ UNCHANGED <<form, pet_data, video_analysis, prompt, attempt, response_text,
                   last_error, error_msg, result, files, clock, calls, first_call, first_text,
                   created, video_raised, responses>>

\* lines 275-277: the except clause of the upload block
UploadExcept(r, step) ==
    /\ video_analysis' = [video_analysis EXCEPT ![r] = UploadFallback]
    /\ video_raised' = [video_raised EXCEPT ![r] = @ \cup {step}]
    /\ pc' = [pc EXCEPT ![r] = "captured"]

WriteFile(path, size, r) ==
    [p \in DOMAIN files \cup {path} |->
        IF p = path THEN [size |-> size, writer |-> r] ELSE files[p]]

\* line 260: video_file.save writes the whole file, or raises before
\* creating it, or raises after writing a part of it
Save(r) ==
    /\ pc[r] = "save"
    /\ UNCHANGED video_vars
    /\ \/ /\ files' = WriteFile(video_path[r], form[r].video_file.size, r)
          /\ created' = [created EXCEPT ![r] = video_path[r]]
          /\ pc' = [pc EXCEPT ![r] = "getsize"]
          /\ UNCHANGED <<video_analysis, video_raised>>
       \/ /\ UploadExcept(r, "save")
          /\ UNCHANGED <<files, created>>
       \/ /\ form[r].video_file.size > 0
          /\ files' = WriteFile(video_path[r], 0, r)
          /\ created' = [created EXCEPT ![r] = video_path[r]]
          /\ UploadExcept(r, "save")
    /\ UNCHANGED <<form, pet_data, video_path, prompt, attempt, response_text,
                   last_error, error_msg, result, clock, calls, first_call, first_text, responses>>

\* lines 263-267: os.path.getsize raises when the file is gone or cannot be
\* examined
GetSize(r) ==
    /\ pc[r] = "getsize"
    /\ UNCHANGED video_vars
    /\ \/ /\ video_path[r] \in DOMAIN files
          /\ video_analysis' = [video_analysis EXCEPT
                                  ![r] = UploadedSentence(files[video_path[r]].size)]
          /\ pc' = [pc EXCEPT ![r] = "remove"]
          /\ UNCHANGED video_raised
       \/ UploadExcept(r, "getsize")
    /\ UNCHANGED <<form, pet_data, video_path, prompt, attempt, response_text,
                   last_error, error_msg, result, files, clock, calls, first_call, first_text,
                   created, responses>>

\* lines 269-273: os.remove deletes the file or raises OSError, which is
\* swallowed
Remove(r) ==
    /\ pc[r] = "remove"
    /\ UNCHANGED video_vars
    /\ \/ /\ video_path[r] \in DOMAIN files
          /\ files' = [p \in DOMAIN files \ {video_path[r]} |-> files[p]]
          /\ UNCHANGED video_raised
       \/ /\ video_raised' = [video_raised EXCEPT ![r] = @ \cup {"remove"}]
          /\ UNCHANGED files
    /\ pc' = [pc EXCEPT ![r] = "captured"]
    /\ UNCHANGED <<form, pet_data, video_analysis, video_path, prompt, attempt,
                   response_text, last_error, error_msg, result, clock, calls,
                   first_call, first_text, created, responses>>

\* lines 284-294: the body of the captured-video block; raised tells whether
\* the except clause ran
CapturedAnalysis(captured_video) ==
    CHOOSE a \in
        {IF comma = 0 \/ b64decode(SubSeq(captured_video, comma + 1, Len(captured_video))).raised
         THEN [raised |-> TRUE, text |-> CapturedFallback]
         ELSE [raised |-> FALSE,
               text |-> analyze_video_content(PyStr(Len(captured_video) - comma))]
            : comma \in {FirstIndex(captured_video, ",")}} : TRUE

\* line 281
CapturedPresent(captured_video) ==
    captured_video # "" /\ startswith(captured_video, "data:video")

\* lines 279-294
Captured(r) ==
    /\ pc[r] = "captured"
    /\ UNCHANGED video_vars
    /\ IF CapturedPresent(form[r].captured_video)
       THEN LET a == CapturedAnalysis(form[r].captured_video)
            IN /\ video_analysis' = [video_analysis EXCEPT ![r] = a.text]
               /\ video_raised' = [video_raised EXCEPT
                                     ![r] = IF a.raised THEN @ \cup {"captured"} ELSE @]
       ELSE UNCHANGED <<video_analysis, video_raised>>
    /\ pc' = [pc EXCEPT ![r] = "prompt"]
    /\ UNCHANGED <<form, pet_data, video_path, prompt, attempt, response_text,
                   last_error, error_msg, result, files, clock, calls, first_call, first_text,
                   created, responses>>

\* lines 296-303
BuildPrompt(r) ==
    /\ pc[r] = "prompt"
    /\ UNCHANGED video_vars
    /\ prompt' = [prompt EXCEPT ![r] = create_enhanced_prompt(pet_data[r], video_analysis[r])]
    /\ attempt' = [attempt EXCEPT ![r] = 0]
    /\ pc' = [pc EXCEPT ![r] = "generate"]
    /\ UNCHANGED <<form, pet_data, video_analysis, video_path, response_text,
                   last_error, error_msg, result, files, clock, calls, first_call, first_text,
                   created, video_raised, responses>>

\* mutant of Truthy: an empty text is accepted
Truthy_any(text) == TRUE

\* line 308: if response.text
Truthy(text) == text # ""

\* mutant of LastAttempt: the loop gives up one attempt late
LastAttempt_late(attempt_) == attempt_ = max_retries

\* line 315
LastAttempt(attempt_) == attempt_ = max_retries - 1

\* lines 313-317: the except clause of the retry loop; line 304: the loop
\* goes on while range(max_retries) lasts and then falls through to line 319
RetryExcept(r, e) ==
    /\ last_error' = [last_error EXCEPT ![r] = e]
    /\ IF LastAttempt(attempt[r])
       THEN /\ error_msg' = [error_msg EXCEPT ![r] = UnavailableError]
            /\ pc' = [pc EXCEPT ![r] = "except"]
            /\ UNCHANGED attempt
       ELSE /\ attempt' = [attempt EXCEPT ![r] = @ + 1]
            /\ pc' = [pc EXCEPT ![r] = IF attempt[r] + 1 < max_retries
                                       THEN "generate" ELSE "respond"]
            /\ UNCHANGED error_msg

\* lines 304-317: one iteration of the retry loop
Generate(r, texts, errors) ==
    /\ pc[r] = "generate"
    /\ UNCHANGED video_vars
    /\ calls' = [calls EXCEPT ![r] = @ + 1]
    /\ \/ \E text \in texts :
             /\ response_text' = [response_text EXCEPT ![r] = text]
             /\ IF first_call[r] = 0 /\ text # ""
                THEN /\ first_call' = [first_call EXCEPT ![r] = calls[r] + 1]
                     /\ first_text' = [first_text EXCEPT ![r] = text]
                ELSE UNCHANGED <<first_call, first_text>>
             /\ IF Truthy(text)
                THEN /\ pc' = [pc EXCEPT ![r] = "respond"]
                     /\ UNCHANGED <<attempt, last_error, error_msg>>
                ELSE RetryExcept(r, EmptyResponseError)
       \/ \E e \in errors :
             /\ RetryExcept(r, e)
             /\ UNCHANGED <<response_text, first_call, first_text>>
    /\ UNCHANGED <<form, pet_data, video_analysis, video_path, prompt, result, files,
                   clock, created, video_raised, responses>>

\* lines 326-334
SuccessResponse(r) ==
    [status |-> 200, success |-> TRUE, analysis |-> response_text[r],
     pet_name |-> pet_data[r]["pet_name"], pet_type |-> pet_data[r]["pet_type"]]

\* lines 319-334
Respond(r) ==
    /\ pc[r] = "respond"
    /\ UNCHANGED video_vars
    /\ result' = [result EXCEPT ![r] = SuccessResponse(r)]
    /\ responses' = [responses EXCEPT ![r] = @ + 1]
    /\ pc' = [pc EXCEPT ![r] = "done"]
    /\ UNCHANGED <<form, pet_data, video_analysis, video_path, prompt, attempt,
                   response_text, last_error, error_msg, files, clock, calls,
                   first_call, first_text, created, video_raised>>

\* lines 351-356
ErrorResponse(error_msg_) ==
    [status |-> 500, success |-> FALSE, error |-> user_message(error_msg_),
     error_code |-> "ANALYSIS_ERROR"]

\* lines 336-356: the handler's outer except clause
Except(r) ==
    /\ pc[r] = "except"
    /\ UNCHANGED video_vars
    /\ result' = [result EXCEPT ![r] = ErrorResponse(error_msg[r])]
    /\ responses' = [responses EXCEPT ![r] = @ + 1]
    /\ pc' = [pc EXCEPT ![r] = "done"]
    /\ UNCHANGED <<form, pet_data, video_analysis, video_path, prompt, attempt,
                   response_text, last_error, error_msg, files, clock, calls,
                   first_call, first_text, created, video_raised>>

\* a second of wall-clock time passes
Tick ==
    /\ clock < MaxClock
    /\ UNCHANGED video_vars
    /\ clock' = clock + 1
    /\ UNCHANGED <<pc, form, pet_data, video_analysis, video_path, prompt, attempt,
                   response_text, last_error, error_msg, result, files, calls,
                   first_call, first_text, created, video_raised, responses>>

(***************************************************************************)
(* Spec: one request, every form of Forms, every behaviour of the service. *)
(***************************************************************************)
Next ==
    \/ Receive(1, Forms)
    \/ Validate(1)
    \/ Upload(1)
    \/ Save(1)
    \/ GetSize(1)
    \/ Remove(1)
    \/ Captured(1)
    \/ BuildPrompt(1)
    \/ Generate(1, ServiceTexts, ServiceErrors)
    \/ Respond(1)
    \/ Except(1)

Spec == Init /\ [][Next]_vars

\* the handler runs to its return statement: no step of it waits for anything
FairSpec == Spec /\ WF_vars(Next)

(***************************************************************************)
(* ConcSpec: the threaded server (app.run(threaded=True)) handles NReq     *)
(* requests at once; the service answers or fails.                         *)
(***************************************************************************)
ConcTexts == {"Rex seems happy."}
ConcErrors == {"Network connection reset"}

ConcNext ==
    \/ \E r \in Reqs : Receive(r, ConcForms)
    \/ \E r \in Reqs : Validate(r)
    \/ \E r \in Reqs : Upload(r)
    \/ \E r \in Reqs : Save(r)
    \/ \E r \in Reqs : GetSize(r)
    \/ \E r \in Reqs : Remove(r)
    \/ \E r \in Reqs : Captured(r)
    \/ \E r \in Reqs : BuildPrompt(r)
    \/ \E r \in Reqs : Generate(r, ConcTexts, ConcErrors)
    \/ \E r \in Reqs : Respond(r)
    \/ \E r \in Reqs : Except(r)
    \/ Tick

ConcSpec == Init /\ [][ConcNext]_vars

(***************************************************************************)
(* VideoSpec: analyze_video_content called on its own.                     *)
(***************************************************************************)
Near(n) == {k \in (n - MaxDelta)..(n + MaxDelta) : k >= 0}

VideoLens == Near(0) \cup Near(SIZE_CLEAR) \cup Near(SIZE_HIGH)
                 \cup {50000, 500000, 1500000}

VideoInputs == {PyNone} \cup {PyStr(n) : n \in VideoLens} \cup {PyBytes(n) : n \in VideoLens}

VideoInit ==
    /\ HandlerInit
    /\ video_data \in VideoInputs
    /\ summary = ""
    /\ summarized = FALSE

Summarize ==
    /\ ~summarized
    /\ summary' = analyze_video_content(video_data)
    /\ summarized' = TRUE
    /\ UNCHANGED <<video_data, handler_vars>>

VideoNext == Summarize

VideoSpec == VideoInit /\ [][VideoNext]_vars

(***************************************************************************)
(* Properties.                                                             *)
(***************************************************************************)
Returned(r) == pc[r] = "done"

\* C1: for a validated request the generation service is called at most
\* max_retries = 3 times; once call k has returned non-empty text no further
\* call is made, k calls have been made in all and the response carries that
\* call's text with status 200; when every call returned empty text or
\* raised, exactly 3 calls are made before the request fails with status 500.
RetryContract ==
    \A r \in Reqs :
        /\ calls[r] <= max_retries
        /\ first_call[r] # 0 => calls[r] = first_call[r]
        /\ pc[r] = "respond" => first_call[r] # 0
        /\ pc[r] = "except" => first_call[r] = 0 /\ calls[r] = max_retries
        /\ Returned(r) /\ first_call[r] # 0 =>
               /\ result[r].status = 200
               /\ result[r].analysis = first_text[r]
        /\ Returned(r) /\ prompt[r] # None /\ first_call[r] = 0 =>
               /\ calls[r] = max_retries
               /\ result[r].status = 500
               /\ ~result[r].success

\* C1 witness: the first call returned empty text, the second returned text
\* and the request was answered with it
SecondCallSucceeded ==
    /\ Returned(1)
    /\ first_call[1] = 2
    /\ calls[1] = 2
    /\ last_error[1] = EmptyResponseError
    /\ result[1].status = 200
    /\ result[1].analysis = "Rex may be anxious."

\* C2: a temporary file that a request wrote to the upload folder no longer
\* exists when the response is returned.
TempFileGone ==
    \A r \in Reqs :
        Returned(r) /\ created[r] # "" => created[r] \notin DOMAIN files

\* C3: when the generation step fails after its retries the response is a
\* 500 whose user message is the one selected by the keywords of the error
\* the service raised.
ErrorMessageByServiceError ==
    \A r \in Reqs :
        Returned(r) /\ prompt[r] # None /\ first_call[r] = 0 =>
            /\ result[r].status = 500
            /\ result[r].error = user_message(last_error[r])

\* the conditions under which the record fails validation
RecordFails(data) ==
    \/ \E field \in {"pet_name", "pet_type", "pet_breed"} : strip(data[field]) = ""
    \/ lower(data["pet_type"]) \notin
           {"dog", "cat", "bird", "rabbit", "hamster", "guinea pig", "ferret", "other"}
    \/ Len(data["pet_name"]) > 50
    \/ Len(data["behavior_desc"]) > 2000

\* C4: a request whose record fails validation is answered with status 400,
\* success false and an error beginning "Invalid input"; no prompt is built,
\* no temporary file is written and the generation service is not called.
InvalidRecordRejected ==
    \A r \in Reqs :
        pet_data[r] # None /\ RecordFails(pet_data[r]) =>
            /\ Returned(r)
            /\ result[r].status = 400
            /\ ~result[r].success
            /\ startswith(result[r].error, "Invalid input")
            /\ prompt[r] = None
            /\ video_path[r] = ""
            /\ created[r] = ""
            /\ calls[r] = 0

\* C4 witness: the request with pet_type "lizard" has been answered
LizardRejected ==
    /\ Returned(1)
    /\ form[1].pet_type = "lizard"
    /\ form[1].pet_name = " Rex\t"
    /\ form[1].video_file # None
    /\ result[1] = [status |-> 400, success |-> FALSE,
                    error |-> "Invalid input: Invalid pet type"]

FallbackLines ==
    {"VIDEO ANALYSIS: " \o UploadFallback, "VIDEO ANALYSIS: " \o CapturedFallback}

\* C5: when saving the upload, reading its size or decoding the inline
\* payload raised, the prompt is still built, with a fallback sentence, and
\* the status of the response is decided by the generation step alone.
VideoFailureFallsBack ==
    \A r \in Reqs :
        video_raised[r] \cap {"save", "getsize", "captured"} # {} =>
            /\ pc[r] \notin {"captured", "prompt"} =>
                   /\ prompt[r] # None
                   /\ prompt[r].video_line \in FallbackLines
            /\ Returned(r) => (result[r].status = 200 <=> first_call[r] # 0)
            /\ Returned(r) => (result[r].status = 500 <=> first_call[r] = 0)

\* C6: when a video file with an allowed extension was uploaded, the video
\* summary in the prompt is the one derived from the upload, whatever the
\* captured_video field holds.
UploadSuppressesInline ==
    \A r \in Reqs :
        prompt[r] # None /\ UploadAccepted(form[r].video_file) =>
            prompt[r].video_line \in
                {"VIDEO ANALYSIS: " \o UploadFallback}
                    \cup {"VIDEO ANALYSIS: " \o UploadedSentence(n) :
                             n \in {0, form[r].video_file.size}}

TempFileInUse(r) == pc[r] \in {"save", "getsize", "remove"}

\* C7: two requests handled at the same time never use the same temporary
\* file path.
DistinctTempPaths ==
    \A r1, r2 \in Reqs :
        r1 # r2 /\ TempFileInUse(r1) /\ TempFileInUse(r2) =>
            video_path[r1] # video_path[r2]

\* the sentence C8 assigns to a payload of length n
SentenceForLength(n) ==
    IF n = 0 THEN ""
    ELSE IF n > 1000000 THEN HighQualitySentence
    ELSE IF n > 100000 THEN ClearIndicatorsSentence
    ELSE BriefClipSentence

\* C8: analyze_video_content returns the sentence its payload's length
\* selects, for raw bytes as for an encoded string.
SummaryByLength ==
    summarized => summary = SentenceForLength(video_data.len)

\* C9: a non-empty `context` form value appears in the prompt's "What user
\* wants to know" line.
ContextInPrompt ==
    \A r \in Reqs :
        prompt[r] # None /\ strip(form[r].context) # "" =>
            Contains(strip(form[r].context), prompt[r].wants_to_know)

\* the states of the request handler
Phase(p) ==
    CASE p = "idle" -> 0
      [] p = "validating" -> 1
      [] p \in {"upload", "save", "getsize", "remove", "captured", "prompt"} -> 2
      [] p = "generate" -> 3
      [] p \in {"respond", "except"} -> 4
      [] p = "done" -> 5

OneResponse ==
    \A r \in Reqs :
        /\ responses[r] = (IF Returned(r) THEN 1 ELSE 0)
        /\ (result[r] # None) <=> Returned(r)
        /\ Returned(r) =>
               /\ result[r].status \in {200, 400, 500}
               /\ result[r].status = 400 => prompt[r] = None /\ calls[r] = 0
               /\ result[r].status = 500 => prompt[r] # None /\ calls[r] > 0
               /\ result[r].status = 200 =>
                      /\ first_call[r] # 0
                      /\ response_text[r] # ""
                      /\ result[r].analysis = response_text[r]

\* C10: a request moves forward through Validating, BuildingPrompt,
\* Generating, Responding and never back, and ends with exactly one
\* response whatever the service does: 400 from Validating, 500 from a later
\* failure, or 200, the last only after a call returned non-empty text.
ForwardToOneResponse ==
    /\ [][\A r \in Reqs : Phase(pc'[r]) >= Phase(pc[r])]_vars
    /\ []OneResponse
    /\ <>Returned(1)

\* C10 witness: the third call returned text after two failed and the
\* request was answered with 200
ThirdCallAnswered ==
    /\ Returned(1)
    /\ calls[1] = 3
    /\ first_call[1] = 3
    /\ last_error[1] \in ServiceErrors
    /\ result[1].status = 200
    /\ responses[1] = 1

====
